---- MODULE Spec2Model ----
(***************************************************************************)
(* A model of babi_task_single.py (H-Mem on a single bAbI task).          *)
(*                                                                         *)
(* The script is a straight-line program.  It is modelled in slices, each *)
(* a specification over the same variables:                                *)
(*   SpecData     lines 68-147: vocabulary, sizes, vectorization, the      *)
(*                replication of the query over the hop axis, input shapes *)
(*   SpecModel    lines 47-223: the data of a small task, model            *)
(*                construction and the forward pass of batches under fit   *)
(*                and evaluate                                             *)
(*   SpecBuild    the same, over the values of --encodings_type            *)
(*   SpecBatch    the same, over the values of --hops alone                *)
(*   SpecCell     lines 165-173: the writing recurrence fed with arbitrary *)
(*                entity vectors                                           *)
(*   SpecSchedule lines 199-216: the learning-rate schedule over epochs    *)
(* All numbers are integers: real-valued quantities are modelled in whole  *)
(* units, and every division is a floor division.                          *)
(* The weights are fixed: the optimizer's update after a training batch is *)
(* not modelled, only the moving statistics of batch normalization change. *)
(***************************************************************************)
EXTENDS Integers, Sequences, FiniteSets, TLC

(***************************************************************************)
(* Bounds of the model.                                                    *)
(***************************************************************************)
MaxStorySize == 2          \* longest story drawn, in sentences
MaxHops == 2               \* largest --hops drawn
MaxArgSentences == 3       \* largest --max_num_sentences drawn

(***************************************************************************)
(* Helpers.                                                                *)
(***************************************************************************)
Max2(a, b) == IF a >= b THEN a ELSE b

Min2(a, b) == IF a <= b THEN a ELSE b

RECURSIVE SetMax(_)
SetMax(S) == LET x == CHOOSE y \in S : TRUE
             IN  IF S = {x} THEN x ELSE Max2(x, SetMax(S \ {x}))

Range(f) == {f[i] : i \in DOMAIN f}

Abs(x) == IF x < 0 THEN -x ELSE x

Clip(x, lo, hi) == Max2(lo, Min2(hi, x))

\* The sum of the entries of a sequence.
RECURSIVE SumTo(_, _)
SumTo(f, n) == IF n = 0 THEN 0 ELSE f[n] + SumTo(f, n - 1)

Sum(f) == SumTo(f, Len(f))

\* A function on 1..n as the sequence of its values.
Vec(f) == f \o <<>>

\* The integer square root.
Isqrt(n) == CHOOSE r \in 0..n : r * r <= n /\ (r + 1) * (r + 1) > n

(***************************************************************************)
(* The data: what load_task returns.  A sample is (story, query, answer),  *)
(* a story a list of sentences, a sentence a list of words.                *)
(***************************************************************************)
\* The words of the data, in Python's string order (sorted() of line 72).
WordOrder == <<"john", "kitchen", "mary", "went", "where">>

Sentences == {<<"john", "went", "kitchen">>, <<"mary", "went">>}

Questions == {[q |-> <<"where", "john">>, a |-> <<"kitchen">>],
              [q |-> <<"where", "went", "mary", "john">>, a |-> <<"kitchen">>]}

Stories == UNION {[1..n -> Sentences] : n \in 1..MaxStorySize}

Samples == {[s |-> st, q |-> qa.q, a |-> qa.a] : st \in Stories, qa \in Questions}

\* 'time{}'.format(i + 1) of line 84, as a function of i + 1.
TimeWord(n) == "time" \o ToString(n)

\* Lines 23-46: the defaults of the arguments.  The real-valued ones are in
\* whole units: learning_rate in 1/1000, gamma_pos, gamma_neg and
\* validation_split in 1/100.
DefaultArgs ==
    [max_num_sentences |-> -1, epochs |-> 100, learning_rate |-> 3,
     validation_split |-> 10, hops |-> 3,
     read_before_write |-> 0, gamma_pos |-> 1, gamma_neg |-> 1,
     w_assoc_max |-> 1, encodings_type |-> "learned_encoding"]

VARIABLES
    pc,                 \* position in the script
    args,               \* parser.parse_args(): the arguments the slice reads
    train, test,        \* load_task's two lists of samples
    vocab,              \* line 72: the sorted list of distinct words
    word_idx,           \* lines 73, 83-84: the dict, a function on its keys
    max_story_size,     \* line 75
    max_num_sentences,  \* line 77
    out_size,           \* line 80
    vocab_size,         \* line 86
    max_words,          \* line 105
    trainS, testS,      \* lines 106-107: story tensors
    trainQ, testQ,      \* lines 106-110: query tensors
    story_shape,        \* line 112
    query_shape,        \* line 113
    layers,             \* lines 139-147, 182: the sizes handed to the layers
    encoding,           \* line 151: the Encoding layer as constructed
    bn,                 \* lines 155-156: the moving statistics of both layers
    training,           \* whether the pass at hand is a training pass
    caller,             \* the call the pass belongs to: model.fit or model.evaluate
    batches_run,        \* training batches completed by model.fit
    story_encoded,      \* line 152: (batch, sentences, E)
    query_encoded,      \* line 153: (batch, hops, E)
    story_norm,         \* line 155
    query_norm,         \* line 156
    entities,           \* lines 158-163: (batch, sentences, M)
    t,                  \* sentences written by the entity_writing recurrence
    memory,             \* the state of the entity_writing recurrence
    memory_matrix,      \* lines 165-173: the recurrence's output
    hop,                \* hops done by the entity_reading recurrence
    read_state,         \* the state of the entity_reading recurrence
    queried_value,      \* lines 175-180: the recurrence's output
    outputs,            \* lines 182-185
    epoch,              \* the epoch model.fit is in, -1 before the first
    lr                  \* the optimizer's learning rate

prepVars == <<train, test, vocab, word_idx, max_story_size,
              max_num_sentences, out_size, vocab_size, max_words,
              trainS, testS, trainQ, testQ, story_shape, query_shape>>

passVars == <<training, caller, story_encoded, query_encoded, story_norm, query_norm,
              entities, t, memory, memory_matrix, hop, read_state,
              queried_value, outputs>>

netVars == <<encoding, bn, batches_run, passVars>>

schedVars == <<epoch, lr>>

vars == <<pc, args, layers, prepVars, netVars, schedVars>>

(***************************************************************************)
(* Lines 68-113 and 139-147: data preparation.                             *)
(***************************************************************************)
\* Line 72: the set of all words of stories, queries and answers.
WordsOf(sample) ==
    UNION {Range(sample.s[i]) : i \in DOMAIN sample.s}
        \cup Range(sample.q) \cup Range(sample.a)

DataWords(data) == UNION {WordsOf(data[i]) : i \in DOMAIN data}

\* Line 72: sorted(...) of the word set.
SortedVocab(data) == SelectSeq(WordOrder, LAMBDA w : w \in DataWords(data))

\* Line 73: dict((c, i + 1) for i, c in enumerate(vocab)).
WordIdx(v) == [w \in Range(v) |-> CHOOSE i \in DOMAIN v : v[i] = w]

\* Line 75: max(map(len, (s for s, _, _ in data))).
MaxStorySizeOf(data) == SetMax({Len(data[i].s) : i \in DOMAIN data})

\* Lines 77-78.
MaxNumSentences(arg, mss) == IF arg = -1 THEN mss ELSE Min2(arg, mss)

\* Lines 83-84: for i in range(max_num_sentences): word_idx['time{i+1}'] = 'time{i+1}'.
\* range(n) is empty for n <= 0.
TimeKeys(n) == {TimeWord(i) : i \in 1..n}

AddTimeWords(widx, n) ==
    [k \in DOMAIN widx \cup TimeKeys(n) |->
        IF k \in TimeKeys(n) THEN k ELSE widx[k]]

\* Line 88: longest sentence + 1 for the time word.
MaxSentenceSizeOf(data) ==
    SetMax(UNION {{Len(data[i].s[j]) : j \in DOMAIN data[i].s} : i \in DOMAIN data}) + 1

\* Line 89.
MaxQuerySizeOf(data) == SetMax({Len(data[i].q) : i \in DOMAIN data})

\* Line 105.
MaxWords(data) == Max2(MaxSentenceSizeOf(data), MaxQuerySizeOf(data))

(***************************************************************************)
(* data.babi_data.vectorize_data is not part of the sources at hand; it is *)
(* modelled from the specification's data model: a sentence is a padded    *)
(* list of word indices whose last slot holds its time word, a story is    *)
(* truncated to its most recent `count` sentences and padded with nil      *)
(* sentences to `count`, a query is a padded list of word indices.         *)
(***************************************************************************)
PadWords(ws, widx, width) ==
    [i \in 1..width |-> IF i <= Len(ws) THEN widx[ws[i]] ELSE 0]

VectorizeQuery(q, widx, width) == PadWords(q, widx, width)

VectorizeStory(st, widx, nvocab, count, width) ==
    LET kept == Min2(Len(st), count)
        drop == Len(st) - kept
    IN  [j \in 1..count |->
            IF j <= kept
            THEN [PadWords(st[drop + j], widx, width)
                      EXCEPT ![width] = nvocab + kept - j + 1]
            ELSE [i \in 1..width |-> 0]]

VectorizeStories(data, widx, nvocab, count, width) ==
    [n \in DOMAIN data |-> VectorizeStory(data[n].s, widx, nvocab, count, width)]

VectorizeQueries(data, widx, width) ==
    [n \in DOMAIN data |-> VectorizeQuery(data[n].q, widx, width)]

\* Lines 109-110: np.repeat(np.expand_dims(Q, axis=1), hops, axis=1).
\* Q has shape (samples, max_words); the result (samples, hops, max_words).
\* Repeating along axis 2 instead gives (samples, 1, hops * max_words).
RepeatHopsWrongAxis(Q, hops) ==
    [n \in DOMAIN Q |->
        <<[i \in 1..(hops * Len(Q[n])) |-> Q[n][((i - 1) \div hops) + 1]]>>]

RepeatHops(Q, hops) == [n \in DOMAIN Q |-> [h \in 1..hops |-> Q[n]]]

\* Lines 112-113: tensor.shape[1:], from the tensor itself.  The shape of an
\* array without samples comes from the sizes it was allocated with.
ShapeTail(T, d1, d2) ==
    IF Len(T) = 0 THEN <<d1, d2>>
    ELSE <<Len(T[1]), IF Len(T[1]) = 0 THEN d2 ELSE Len(T[1][1])>>

ArgSentences == (-2)..MaxArgSentences

ArgHops == (-1)..MaxHops

\* Line 47: parser.parse_args(); both arguments are type=int, unchecked.
ParseArgs ==
    /\ pc = "start"
    /\ \E m \in ArgSentences, h \in ArgHops :
           args' = [DefaultArgs EXCEPT !.max_num_sentences = m, !.hops = h]
    /\ pc' = "parsed"
    /\ UNCHANGED <<train, test, vocab, word_idx, max_story_size,
                   max_num_sentences, out_size, vocab_size, max_words,
                   trainS, testS, trainQ, testQ, story_shape, query_shape, layers>>
    /\ UNCHANGED <<netVars, schedVars>>

\* Lines 69-70.
LoadTask ==
    /\ pc = "parsed"
    /\ \E a \in Samples, b \in Samples :
           /\ train' = <<a>>
           /\ test' = <<b>>
    /\ pc' = "loaded"
    /\ UNCHANGED <<args, vocab, word_idx, max_story_size,
                   max_num_sentences, out_size, vocab_size, max_words,
                   trainS, testS, trainQ, testQ, story_shape, query_shape, layers>>
    /\ UNCHANGED <<netVars, schedVars>>

\* Lines 72-73.
BuildVocab ==
    /\ pc = "loaded"
    /\ vocab' = SortedVocab(train \o test)
    /\ word_idx' = WordIdx(vocab')
    /\ pc' = "vocab"
    /\ UNCHANGED <<args, train, test, max_story_size,
                   max_num_sentences, out_size, vocab_size, max_words,
                   trainS, testS, trainQ, testQ, story_shape, query_shape, layers>>
    /\ UNCHANGED <<netVars, schedVars>>

\* Lines 75-80.
ComputeSizes ==
    /\ pc = "vocab"
    /\ max_story_size' = MaxStorySizeOf(train \o test)
    /\ max_num_sentences' = MaxNumSentences(args.max_num_sentences, max_story_size')
    /\ out_size' = Cardinality(DOMAIN word_idx) + 1
    /\ pc' = "sized"
    /\ UNCHANGED <<args, train, test, vocab, word_idx, vocab_size, max_words,
                   trainS, testS, trainQ, testQ, story_shape, query_shape, layers>>
    /\ UNCHANGED <<netVars, schedVars>>

\* Lines 83-86.
TimeWords ==
    /\ pc = "sized"
    /\ word_idx' = AddTimeWords(word_idx, max_num_sentences)
    /\ vocab_size' = Cardinality(DOMAIN word_idx') + 1
    /\ pc' = "timed"
    /\ UNCHANGED <<args, train, test, vocab, max_story_size,
                   max_num_sentences, out_size, max_words,
                   trainS, testS, trainQ, testQ, story_shape, query_shape, layers>>
    /\ UNCHANGED <<netVars, schedVars>>

\* Lines 105-107.  The script hands max_num_sentences to vectorize_data
\* unchecked.  What vectorize_data does with a negative count is stated
\* nowhere: it may raise (outcome -1), or return stories of any count k it
\* arrives at.
VectorizeCounts(count, mss) == IF count < 0 THEN (-1)..mss ELSE {count}

Vectorize ==
    /\ pc = "timed"
    /\ max_words' = MaxWords(train \o test)
    /\ \E k \in VectorizeCounts(max_num_sentences, max_story_size) :
           IF k < 0
           THEN /\ pc' = "error"
                /\ UNCHANGED <<trainS, testS, trainQ, testQ>>
           ELSE /\ trainS' = VectorizeStories(train, word_idx, Len(vocab), k, max_words')
                /\ testS' = VectorizeStories(test, word_idx, Len(vocab), k, max_words')
                /\ trainQ' = VectorizeQueries(train, word_idx, max_words')
                /\ testQ' = VectorizeQueries(test, word_idx, max_words')
                /\ pc' = "vectorized"
    /\ UNCHANGED <<args, train, test, vocab, word_idx, max_story_size,
                   max_num_sentences, out_size, vocab_size,
                   story_shape, query_shape, layers>>
    /\ UNCHANGED <<netVars, schedVars>>

\* Lines 109-113.  np.repeat raises ValueError on a negative count.
RepeatQuery ==
    /\ pc = "vectorized"
    /\ IF args.hops < 0
       THEN /\ pc' = "error"
            /\ UNCHANGED <<trainQ, testQ, story_shape, query_shape>>
       ELSE /\ trainQ' = RepeatHops(trainQ, args.hops)
            /\ testQ' = RepeatHops(testQ, args.hops)
            /\ story_shape' = ShapeTail(trainS, max_num_sentences, max_words)
            /\ query_shape' = ShapeTail(trainQ', args.hops, max_words)
            /\ pc' = "repeated"
    /\ UNCHANGED <<args, train, test, vocab, word_idx, max_story_size,
                   max_num_sentences, out_size, vocab_size, max_words,
                   trainS, testS, layers>>
    /\ UNCHANGED <<netVars, schedVars>>

\* Lines 139-147: the Input layers take the tensors' shapes, the embedding
\* table takes vocab_size.
BuildInputs ==
    /\ pc = "repeated"
    /\ layers' = [story_input |-> story_shape,
                  query_input |-> query_shape,
                  embedding_input_dim |-> vocab_size]
    /\ pc' = "inputs"
    /\ UNCHANGED <<args, train, test, vocab, word_idx, max_story_size,
                   max_num_sentences, out_size, vocab_size, max_words,
                   trainS, testS, trainQ, testQ, story_shape, query_shape>>
    /\ UNCHANGED <<netVars, schedVars>>


(***************************************************************************)
(* Lines 137-187: the network.  Tensors are functions: a batch maps a      *)
(* sample to a sequence (over sentences or hops) of vectors.               *)
(***************************************************************************)
MemorySize == 2          \* --memory_size (line 36), scaled down

EmbeddingsSize == 2      \* --embeddings_size (line 37), scaled down

Slots == 1..MemorySize

Feats == 1..EmbeddingsSize

ZeroVec(S) == Vec([i \in S |-> 0])

ZeroMatrix == Vec([m \in Slots |-> ZeroVec(Feats)])

\* The length of a batch tensor's second axis (sentences, hops).
NumSteps(X) == Len(X[CHOOSE b \in DOMAIN X : TRUE])

(***************************************************************************)
(* layers.encoding.Encoding is not part of the sources at hand; its        *)
(* constructor is modelled from the specification (4.1, 7): it accepts the *)
(* three recognized values and fails on any other.                         *)
(***************************************************************************)
RecognizedEncodings == {"identity_encoding", "position_encoding", "learned_encoding"}

EncodingAccepts(etype) == etype \in RecognizedEncodings

\* Line 151: the value the script hands to Encoding.
EncodingArgumentFallback(a) ==
    IF a.encodings_type \in RecognizedEncodings
    THEN a.encodings_type ELSE DefaultArgs.encodings_type

EncodingArgument(a) == a.encodings_type

(***************************************************************************)
(* Lines 155-156: tf.keras.layers.BatchNormalization over the last axis.   *)
(* A training pass normalizes with the mean and variance of the whole      *)
(* tensor (all samples, all steps) and moves the moving statistics towards *)
(* them with momentum 0.99; an inference pass normalizes with the moving   *)
(* statistics.  gamma = 1, beta = 0; epsilon only keeps the divisor from 0.*)
(***************************************************************************)
InitialStats == [mean |-> ZeroVec(Feats), var |-> Vec([f \in Feats |-> 1])]

Count(X) == Cardinality(DOMAIN X) * NumSteps(X)

BatchMean(X, f) ==
    Sum([b \in DOMAIN X |-> Sum([i \in DOMAIN X[b] |-> X[b][i][f]])]) \div Count(X)

BatchVar(X, f) ==
    LET mu == BatchMean(X, f)
    IN  Sum([b \in DOMAIN X |->
              Sum([i \in DOMAIN X[b] |-> (X[b][i][f] - mu) * (X[b][i][f] - mu)])])
            \div Count(X)

BatchStats(X) == [mean |-> Vec([f \in Feats |-> BatchMean(X, f)]),
                  var |-> Vec([f \in Feats |-> BatchVar(X, f)])]

Normalize(X, stats) ==
    Vec([b \in DOMAIN X |-> Vec([i \in DOMAIN X[b] |-> Vec([f \in Feats |->
        (X[b][i][f] - stats.mean[f]) \div Max2(1, Isqrt(stats.var[f]))])])])

BatchNormalizationAlwaysBatch(X, stats, isTraining) == Normalize(X, BatchStats(X))

BatchNormalization(X, stats, isTraining) ==
    Normalize(X, IF isTraining THEN BatchStats(X) ELSE stats)

MovingStats(stats, X, isTraining) ==
    IF isTraining
    THEN [mean |-> Vec([f \in Feats |->
                          (99 * stats.mean[f] + BatchMean(X, f)) \div 100]),
          var |-> Vec([f \in Feats |->
                          (99 * stats.var[f] + BatchVar(X, f)) \div 100])]
    ELSE stats

(***************************************************************************)
(* layers.extracting.Extracting is not part of the sources at hand; it is  *)
(* modelled from the specification (4.2): one dense projection without     *)
(* bias followed by relu, the same for every sentence.                     *)
(***************************************************************************)
Relu(x) == Max2(0, x)

\* The kernel, E rows of M weights.
ExtractKernel == <<<<1, -1>>, <<1, 2>>>>

Extracting(x) ==
    Vec([m \in Slots |-> Relu(Sum([f \in Feats |-> x[f] * ExtractKernel[f][m]]))])

(***************************************************************************)
(* layers.writing.WritingCell is not part of the sources at hand; it is    *)
(* modelled from the specification (4.3):                                  *)
(*   1. with read_before_write, read the memory with the entity vector,    *)
(*      which gives the predicted content;                                 *)
(*   2. the association-strength gate falls with the correlation of the    *)
(*      entity vector and the memory content;                              *)
(*   3. the novelty gate scales writing (gamma_pos) and decay (gamma_neg); *)
(*   4. M_new = clip(M_old + write_gate * (entity (x) target)              *)
(*                         - decay_gate * M_old, -w_assoc_max, w_assoc_max)*)
(* The target is the raw entity vector, less the predicted content when it *)
(* was read.                                                               *)
(***************************************************************************)
ReadMemory(M, key) == Vec([e \in Feats |-> Sum([m \in Slots |-> key[m] * M[m][e]])])

WritingCell(M, entity, rbw, gamma_pos, gamma_neg, w_max) ==
    LET predicted == IF rbw # 0 THEN ReadMemory(M, entity) ELSE ZeroVec(Feats)
        target == Vec([e \in Feats |-> entity[e] - predicted[e]])
        strength == Abs(Sum([e \in Feats |-> ReadMemory(M, entity)[e] * target[e]]))
        assoc == Max2(0, w_max - strength)
        novelty == IF entity = ZeroVec(Slots) THEN 0 ELSE 1
        write_gate == gamma_pos * assoc * novelty
        decay_gate == gamma_neg * novelty
    IN  Vec([m \in Slots |-> Vec([e \in Feats |->
            Clip(M[m][e] + write_gate * entity[m] * target[e] - decay_gate * M[m][e],
                 -w_max, w_max)])])

(***************************************************************************)
(* layers.reading.ReadingCell is not part of the sources at hand; it is    *)
(* modelled from the specification (4.4): attention weights over the       *)
(* memory rows from their similarity with the query vector, normalized to  *)
(* sum to one; the retrieved combination of rows; the next query           *)
(* representation from the query and the retrieved content through relu.   *)
(* The weights are the non-negative parts of the scores, uniform when all  *)
(* scores are non-positive.                                                *)
(***************************************************************************)
ReadingCell(state, input, M) ==
    LET query == Vec([e \in Feats |-> state[e] + input[e]])
        score == Vec([m \in Slots |-> Relu(Sum([e \in Feats |-> query[e] * M[m][e]]))])
        weight == IF Sum(score) = 0 THEN Vec([m \in Slots |-> 1]) ELSE score
        retrieved == Vec([e \in Feats |->
                        Sum([m \in Slots |-> weight[m] * M[m][e]]) \div Sum(weight)])
    IN  Vec([e \in Feats |-> Relu(query[e] + retrieved[e])])

(***************************************************************************)
(* Lines 165-173: tf.keras.layers.RNN(WritingCell(...))(entities).  The    *)
(* layer starts from the zero state (the call passes no initial state),    *)
(* steps the cell over the sentence axis in order, and returns the last    *)
(* step's output.                                                          *)
(***************************************************************************)
InitialStateStale == Vec([m \in Slots |-> Vec([e \in Feats |-> 1])])

InitialState == ZeroMatrix

\* Lines 166-170: the arguments the script constructs the cell with.
CellWAssocMaxDoubled(a) == 2 * a.w_assoc_max

CellWAssocMax(a) == a.w_assoc_max

WriteCall(M, entity, a) ==
    WritingCell(M, entity, a.read_before_write, a.gamma_pos, a.gamma_neg,
                CellWAssocMax(a))

\* The state after the first n sentences, from the state init.
WriteFold(init, ents, n, a) ==
    LET state[k \in 0..n] ==
            IF k = 0 THEN init ELSE WriteCall(state[k - 1], ents[k], a)
    IN  state[n]

(***************************************************************************)
(* Lines 175-180: tf.keras.layers.RNN(ReadingCell(...))(query_encoded,     *)
(* constants=[memory_matrix]): the zero state, one step per entry of the   *)
(* query's hop axis, the last step's output.                               *)
(***************************************************************************)
\* The state after the first n hops.
ReadFold(qs, n, M) ==
    LET state[k \in 0..n] ==
            IF k = 0 THEN ZeroVec(Feats) ELSE ReadingCell(state[k - 1], qs[k], M)
    IN  state[n]

\* Lines 182-185: Dense(vocab_size, use_bias=False); the kernel has E rows
\* and one column per unit, its entries are fixed weights in -1..1.
OutputKernel(units) ==
    Vec([e \in Feats |-> Vec([v \in 1..units |-> ((e * v) % 3) - 1])])

OutputDense(q, units) ==
    LET K == OutputKernel(units)
    IN  Vec([v \in 1..units |-> Sum([e \in Feats |-> q[e] * K[e][v]])])

(***************************************************************************)
(* The whole graph for sample b of a batch (S, Q), as one function.        *)
(***************************************************************************)
GraphEntities(S, stats, isTraining, b) ==
    LET X == BatchNormalization(S, stats, isTraining)
    IN  Vec([i \in DOMAIN X[b] |-> Extracting(X[b][i])])

GraphMemory(S, stats, isTraining, a, b) ==
    WriteFold(InitialState, GraphEntities(S, stats, isTraining, b), NumSteps(S), a)

GraphRead(Q, M, stats, isTraining, b, units) ==
    OutputDense(ReadFold(BatchNormalization(Q, stats, isTraining)[b], NumSteps(Q), M),
                units)

(***************************************************************************)
(* Lines 137-223: construction, model.fit, model.evaluate.                 *)
(***************************************************************************)
MaxFitBatches == 2       \* training batches model.fit runs

EncodingsTypes == RecognizedEncodings \cup {"sum_encoding"}

SentenceVecs == {<<0, 0>>, <<4, 2>>}

QueryVecs == {<<1, 0>>, <<2, 3>>}

Batch == {1, 2}

\* Line 47, the arguments the recurrences read.
ParseModelArgs ==
    /\ pc = "start"
    /\ \E h \in 1..MaxHops, r \in {0, 1} :
           args' = [DefaultArgs EXCEPT !.hops = h, !.read_before_write = r]
    /\ pc' = "parsed"
    /\ UNCHANGED <<layers, prepVars, netVars, schedVars>>

\* Line 47, the argument that sizes a batch's tensors.
ParseBatchArgs ==
    /\ pc = "start"
    /\ \E h \in 1..MaxHops : args' = [DefaultArgs EXCEPT !.hops = h]
    /\ pc' = "parsed"
    /\ UNCHANGED <<layers, prepVars, netVars, schedVars>>

\* Line 47, the arguments the construction reads; --encodings_type is
\* type=str without choices (lines 42-43).
ParseBuildArgs ==
    /\ pc = "start"
    /\ \E e \in EncodingsTypes, h \in 1..MaxHops :
           args' = [DefaultArgs EXCEPT !.encodings_type = e, !.hops = h]
    /\ pc' = "parsed"
    /\ UNCHANGED <<layers, prepVars, netVars, schedVars>>

\* Lines 69-70 for the runs of the network: a task whose stories have n
\* sentences, the same sample for training and test.
ModelSamples ==
    {[s |-> [i \in 1..n |-> <<"john", "went", "kitchen">>],
      q |-> <<"where", "john">>, a |-> <<"kitchen">>] : n \in 1..MaxStorySize}

LoadModelTask ==
    /\ pc = "parsed"
    /\ \E a \in ModelSamples :
           /\ train' = <<a>>
           /\ test' = <<a>>
    /\ pc' = "loaded"
    /\ UNCHANGED <<args, vocab, word_idx, max_story_size,
                   max_num_sentences, out_size, vocab_size, max_words,
                   trainS, testS, trainQ, testQ, story_shape, query_shape, layers>>
    /\ UNCHANGED <<netVars, schedVars>>

\* Line 151: Encoding(args.encodings_type), constructed after the Input
\* layers and the embedding.  The constructor either returns the layer or
\* raises; when it raises the script ends there.
ConstructEncoding ==
    /\ pc = "inputs"
    /\ IF EncodingAccepts(EncodingArgument(args))
       THEN encoding' = EncodingArgument(args) /\ pc' = "encoding"
       ELSE encoding' = encoding /\ pc' = "config_error"
    /\ UNCHANGED <<args, layers, prepVars, bn, batches_run, passVars, schedVars>>

\* Lines 152-193: the rest of the graph, on the encoding as constructed; the
\* output projection of line 182 takes vocab_size.
BuildModel ==
    /\ pc = "encoding"
    /\ layers' = [story_input |-> layers.story_input,
                  query_input |-> layers.query_input,
                  embedding_input_dim |-> layers.embedding_input_dim,
                  output_units |-> vocab_size]
    /\ pc' = "fit"
    /\ UNCHANGED <<args, prepVars, encoding, bn, batches_run, passVars, schedVars>>

\* The encoded tensors of a batch: every sample has layers.story_input[1]
\* sentences, and its query is the same at every hop (lines 109-110).
FeedBatch(isTraining, from) ==
    /\ \E S \in [Batch -> [1..layers.story_input[1] -> SentenceVecs]],
          q \in [Batch -> QueryVecs] :
           /\ story_encoded' = S
           /\ query_encoded' = [b \in Batch |-> [h \in 1..layers.query_input[1] |-> q[b]]]
    /\ training' = isTraining
    /\ caller' = from
    /\ story_norm' = <<>>
    /\ query_norm' = <<>>
    /\ entities' = <<>>
    /\ t' = 0
    /\ memory' = <<>>
    /\ memory_matrix' = <<>>
    /\ hop' = 0
    /\ read_state' = <<>>
    /\ queried_value' = <<>>
    /\ outputs' = <<>>
    /\ pc' = "normalize"

\* Line 215: model.fit runs the graph on a training batch.
FitBatch ==
    /\ pc = "fit"
    /\ batches_run < MaxFitBatches
    /\ FeedBatch(TRUE, "fit")
    /\ UNCHANGED <<args, layers, prepVars, encoding, bn, batches_run, schedVars>>

\* Line 215, validation_split=args.validation_split: after the training
\* batches of an epoch model.fit runs the graph in inference mode on the
\* held-out samples and goes on with the next epoch.
ValidateBatch ==
    /\ pc = "fit"
    /\ args.validation_split > 0
    /\ batches_run >= 1
    /\ FeedBatch(FALSE, "fit")
    /\ UNCHANGED <<args, layers, prepVars, encoding, bn, batches_run, schedVars>>

\* Line 223: model.evaluate runs the graph on a test batch, after fit.
EvaluateBatch ==
    /\ pc = "fit"
    /\ batches_run >= 1
    /\ FeedBatch(FALSE, "evaluate")
    /\ UNCHANGED <<args, layers, prepVars, encoding, bn, batches_run, schedVars>>

\* Lines 155-156.
NormalizeStep ==
    /\ pc = "normalize"
    /\ story_norm' = BatchNormalization(story_encoded, bn.story, training)
    /\ query_norm' = BatchNormalization(query_encoded, bn.query, training)
    /\ bn' = [story |-> MovingStats(bn.story, story_encoded, training),
              query |-> MovingStats(bn.query, query_encoded, training)]
    /\ pc' = "extract"
    /\ UNCHANGED <<args, layers, prepVars, encoding, batches_run, training, caller,
                   story_encoded, query_encoded, entities, t, memory,
                   memory_matrix, hop, read_state, queried_value, outputs, schedVars>>

\* Lines 158-163.
ExtractStep ==
    /\ pc = "extract"
    /\ entities' = [b \in DOMAIN story_norm |->
                      [i \in DOMAIN story_norm[b] |-> Extracting(story_norm[b][i])]]
    /\ pc' = "writing"
    /\ UNCHANGED <<args, layers, prepVars, encoding, bn, batches_run, training, caller,
                   story_encoded, query_encoded, story_norm, query_norm, t, memory,
                   memory_matrix, hop, read_state, queried_value, outputs, schedVars>>

\* Lines 165-173: one step of the entity_writing recurrence, for every sample.
WriteStepNoCarry ==
    /\ pc = "writing"
    /\ t < NumSteps(entities)
    /\ memory' = [b \in DOMAIN entities |->
                    WriteCall(InitialState, entities[b][t + 1], args)]
    /\ t' = t + 1
    /\ IF t' = NumSteps(entities)
       THEN memory_matrix' = memory' /\ pc' = "reading"
       ELSE UNCHANGED <<memory_matrix, pc>>
    /\ UNCHANGED <<args, layers, prepVars, encoding, bn, batches_run, training, caller,
                   story_encoded, query_encoded, story_norm, query_norm, entities,
                   hop, read_state, queried_value, outputs, schedVars>>

WriteStep ==
    /\ pc = "writing"
    /\ t < NumSteps(entities)
    /\ memory' = [b \in DOMAIN entities |->
                    WriteCall(IF t = 0 THEN InitialState ELSE memory[b],
                              entities[b][t + 1], args)]
    /\ t' = t + 1
    /\ IF t' = NumSteps(entities)
       THEN memory_matrix' = memory' /\ pc' = "reading"
       ELSE UNCHANGED <<memory_matrix, pc>>
    /\ UNCHANGED <<args, layers, prepVars, encoding, bn, batches_run, training, caller,
                   story_encoded, query_encoded, story_norm, query_norm, entities,
                   hop, read_state, queried_value, outputs, schedVars>>

\* Lines 175-180: one step of the entity_reading recurrence, for every sample.
ReadStepShort ==
    /\ pc = "reading"
    /\ hop < NumSteps(query_norm)
    /\ read_state' = [b \in DOMAIN query_norm |->
                        ReadingCell(IF hop = 0 THEN ZeroVec(Feats) ELSE read_state[b],
                                    query_norm[b][hop + 1], memory_matrix[b])]
    /\ hop' = hop + 1
    /\ IF hop' >= NumSteps(query_norm) - 1
       THEN queried_value' = read_state' /\ pc' = "project"
       ELSE UNCHANGED <<queried_value, pc>>
    /\ UNCHANGED <<args, layers, prepVars, encoding, bn, batches_run, training, caller,
                   story_encoded, query_encoded, story_norm, query_norm, entities,
                   t, memory, memory_matrix, outputs, schedVars>>

ReadStep ==
    /\ pc = "reading"
    /\ hop < NumSteps(query_norm)
    /\ read_state' = [b \in DOMAIN query_norm |->
                        ReadingCell(IF hop = 0 THEN ZeroVec(Feats) ELSE read_state[b],
                                    query_norm[b][hop + 1], memory_matrix[b])]
    /\ hop' = hop + 1
    /\ IF hop' = NumSteps(query_norm)
       THEN queried_value' = read_state' /\ pc' = "project"
       ELSE UNCHANGED <<queried_value, pc>>
    /\ UNCHANGED <<args, layers, prepVars, encoding, bn, batches_run, training, caller,
                   story_encoded, query_encoded, story_norm, query_norm, entities,
                   t, memory, memory_matrix, outputs, schedVars>>

\* Lines 182-185.
OutputStep ==
    /\ pc = "project"
    /\ outputs' = [b \in DOMAIN queried_value |->
                     OutputDense(queried_value[b], layers.output_units)]
    /\ pc' = "done"
    /\ UNCHANGED <<args, layers, prepVars, encoding, bn, batches_run, training, caller,
                   story_encoded, query_encoded, story_norm, query_norm, entities,
                   t, memory, memory_matrix, hop, read_state, queried_value, schedVars>>

\* Lines 215-223: a training batch and a validation batch return to
\* model.fit, the test batch ends the script.  The tensors of the batch are
\* dropped.
FinishPass ==
    /\ pc = "done"
    /\ batches_run' = IF training THEN batches_run + 1 ELSE batches_run
    /\ pc' = IF caller = "fit" THEN "fit" ELSE "end"
    /\ training' = FALSE
    /\ caller' = "none"
    /\ story_encoded' = <<>>
    /\ query_encoded' = <<>>
    /\ story_norm' = <<>>
    /\ query_norm' = <<>>
    /\ entities' = <<>>
    /\ t' = 0
    /\ memory' = <<>>
    /\ memory_matrix' = <<>>
    /\ hop' = 0
    /\ read_state' = <<>>
    /\ queried_value' = <<>>
    /\ outputs' = <<>>
    /\ UNCHANGED <<args, layers, prepVars, encoding, bn, schedVars>>

(***************************************************************************)
(* The writing recurrence on its own, fed with arbitrary entity vectors.   *)
(***************************************************************************)
EntityVecs == {<<0, 0>>, <<1, 2>>, <<-3, 1>>, <<100, -100>>, <<0, 1000>>}

WAssocMaxValues == {1, 3}

GammaPosValues == {1, 2}

GammaNegValues == {0, 1}

FeedEntities ==
    /\ pc = "start"
    /\ \E r \in {0, 1}, w \in WAssocMaxValues, gp \in GammaPosValues,
          gn \in GammaNegValues :
           args' = [DefaultArgs EXCEPT !.read_before_write = r, !.w_assoc_max = w,
                                       !.gamma_pos = gp, !.gamma_neg = gn]
    /\ \E n \in 1..MaxStorySize : \E ents \in [1..n -> EntityVecs] :
           entities' = <<ents>>
    /\ pc' = "writing"
    /\ UNCHANGED <<layers, prepVars, encoding, bn, batches_run, training, caller,
                   story_encoded, query_encoded, story_norm, query_norm, t, memory,
                   memory_matrix, hop, read_state, queried_value, outputs, schedVars>>

(***************************************************************************)
(* Lines 199-216: the learning-rate schedule.  A rate is kept as           *)
(*   base * 0.85^pow85 * e^(exp100 / 100),                                 *)
(* base in units of 1/1000: the representation is exact.                   *)
(***************************************************************************)
MaxEpochs == 156         \* largest --epochs drawn

DecayStartEpoch == 150   \* line 201

StepEpochs == 20         \* line 206

Rate(base, p, x) == [base |-> base, pow85 |-> p, exp100 |-> x]

\* Lines 199-206.  epoch >= 0, so floor(epoch / 20) is the integer quotient.
LrSchedulerRising(ep, a) ==
    IF a.read_before_write # 0
    THEN IF ep < DecayStartEpoch
         THEN Rate(a.learning_rate, 0, 0)
         ELSE Rate(a.learning_rate, 0, ep - DecayStartEpoch)
    ELSE Rate(a.learning_rate, (ep + StepEpochs - 1) \div StepEpochs, 0)

LrScheduler(ep, a) ==
    IF a.read_before_write # 0
    THEN IF ep < DecayStartEpoch
         THEN Rate(a.learning_rate, 0, 0)
         ELSE Rate(a.learning_rate, 0, DecayStartEpoch - ep)
    ELSE Rate(a.learning_rate, ep \div StepEpochs, 0)

\* Line 47, the arguments the schedule reads.
ParseTrainArgs ==
    /\ pc = "start"
    /\ \E r \in {0, 1}, l \in {3, 10}, n \in {DefaultArgs.epochs, MaxEpochs} :
           /\ args' = [DefaultArgs EXCEPT !.read_before_write = r,
                                          !.learning_rate = l, !.epochs = n]
           /\ lr' = Rate(l, 0, 0)
    /\ pc' = "epochs"
    /\ UNCHANGED <<layers, prepVars, netVars, epoch>>

\* Lines 210, 215: LearningRateScheduler sets the rate when an epoch begins.
EpochBegin ==
    /\ pc = "epochs"
    /\ epoch + 1 < args.epochs
    /\ epoch' = epoch + 1
    /\ lr' = LrScheduler(epoch', args)
    /\ UNCHANGED <<pc, args, layers, prepVars, netVars>>

\* Line 215 returns after the last epoch.
FitEnd ==
    /\ pc = "epochs"
    /\ epoch + 1 >= args.epochs
    /\ pc' = "trained"
    /\ UNCHANGED <<args, layers, prepVars, netVars, schedVars>>

(***************************************************************************)
(* The specifications.                                                     *)
(***************************************************************************)
InitPrep ==
    /\ train = <<>>
    /\ test = <<>>
    /\ vocab = <<>>
    /\ word_idx = <<>>
    /\ max_story_size = 0
    /\ max_num_sentences = 0
    /\ out_size = 0
    /\ vocab_size = 0
    /\ max_words = 0
    /\ trainS = <<>>
    /\ testS = <<>>
    /\ trainQ = <<>>
    /\ testQ = <<>>
    /\ story_shape = <<>>
    /\ query_shape = <<>>

InitNet ==
    /\ encoding = "none"
    /\ bn = [story |-> InitialStats, query |-> InitialStats]
    /\ training = FALSE
    /\ caller = "none"
    /\ batches_run = 0
    /\ story_encoded = <<>>
    /\ query_encoded = <<>>
    /\ story_norm = <<>>
    /\ query_norm = <<>>
    /\ entities = <<>>
    /\ t = 0
    /\ memory = <<>>
    /\ memory_matrix = <<>>
    /\ hop = 0
    /\ read_state = <<>>
    /\ queried_value = <<>>
    /\ outputs = <<>>

InitSched ==
    /\ epoch = -1
    /\ lr = Rate(DefaultArgs.learning_rate, 0, 0)

Init ==
    /\ pc = "start"
    /\ args = DefaultArgs
    /\ layers = <<>>
    /\ InitPrep
    /\ InitNet
    /\ InitSched

NextData ==
    \/ ParseArgs
    \/ LoadTask
    \/ BuildVocab
    \/ ComputeSizes
    \/ TimeWords
    \/ Vectorize
    \/ RepeatQuery
    \/ BuildInputs
    \/ ConstructEncoding
    \/ BuildModel

RunModel ==
    \/ LoadModelTask
    \/ BuildVocab
    \/ ComputeSizes
    \/ TimeWords
    \/ Vectorize
    \/ RepeatQuery
    \/ BuildInputs
    \/ ConstructEncoding
    \/ BuildModel
    \/ FitBatch
    \/ ValidateBatch
    \/ EvaluateBatch
    \/ NormalizeStep
    \/ ExtractStep
    \/ WriteStep
    \/ ReadStep
    \/ OutputStep
    \/ FinishPass

NextModel == ParseModelArgs \/ RunModel

NextBuild == ParseBuildArgs \/ RunModel

NextBatch == ParseBatchArgs \/ RunModel

NextCell ==
    \/ FeedEntities
    \/ WriteStep

NextSchedule ==
    \/ ParseTrainArgs
    \/ EpochBegin
    \/ FitEnd

SpecData == Init /\ [][NextData]_vars

SpecModel == Init /\ [][NextModel]_vars

SpecBuild == Init /\ [][NextBuild]_vars

SpecBatch == Init /\ [][NextBatch]_vars

SpecCell == Init /\ [][NextCell]_vars

SpecSchedule == Init /\ [][NextSchedule]_vars

(***************************************************************************)
(* The claims.                                                             *)
(***************************************************************************)
AfterInputs == {"inputs", "encoding", "fit"}

AfterRepeated == {"repeated"} \cup AfterInputs

AfterVectorized == {"vectorized"} \cup AfterRepeated

AfterTimed == {"timed", "error"} \cup AfterVectorized

AfterSized == {"sized"} \cup AfterTimed

BeforeEncoding == {"parsed", "loaded", "vocab", "sized", "timed", "vectorized",
                   "repeated", "inputs"}

InRange(M, w) == \A m \in Slots, e \in Feats : -w <= M[m][e] /\ M[m][e] <= w

\* C1: after each write step of the recurrence, started from the zero
\* matrix, every entry of the memory matrix lies within
\* [-w_assoc_max, +w_assoc_max], whatever the entity vectors fed and for
\* both read_before_write settings.
C1_MemoryBounded ==
    (pc \in {"writing", "reading"} /\ t >= 1) =>
        \A b \in DOMAIN memory : InRange(memory[b], args.w_assoc_max)

C1_Witness ==
    /\ pc = "reading"
    /\ t = 2
    /\ args.w_assoc_max = 3
    /\ entities[1][1] = <<100, -100>>
    /\ \E m \in Slots, e \in Feats : memory[1][m][e] = 3
    /\ \E m \in Slots, e \in Feats : memory[1][m][e] = -3

\* C2: if every entity vector of a story is the zero vector, the memory
\* matrix is the zero matrix after every write step of that story, for both
\* read_before_write settings.
C2_ZeroInput ==
    (pc \in {"writing", "reading"} /\ t >= 1) =>
        \A b \in DOMAIN memory :
            (\A i \in DOMAIN entities[b] : entities[b][i] = ZeroVec(Slots))
                => memory[b] = ZeroMatrix

C2_Witness ==
    /\ pc = "reading"
    /\ t = 2
    /\ args.read_before_write = 1
    /\ \A i \in DOMAIN entities[1] : entities[1][i] = ZeroVec(Slots)
    /\ memory[1] = ZeroMatrix

\* C3: within a story the memory starts as zeros and is written once per
\* sentence in sentence order, step i from the matrix of step i - 1; no hop
\* is read before the last sentence is written, and the reading stage gets
\* the matrix of the last write.
C3_WriteThenRead ==
    /\ pc = "writing" =>
          /\ t < NumSteps(entities)
          /\ hop = 0
          /\ read_state = <<>>
          /\ memory_matrix = <<>>
    /\ (pc \in {"writing", "reading", "project", "done"} /\ t >= 1) =>
          \A b \in Batch :
              memory[b] = WriteFold(ZeroMatrix, entities[b], t, args)
    /\ pc \in {"reading", "project", "done"} =>
          /\ t = layers.story_input[1]
          /\ \A b \in Batch :
                memory_matrix[b] =
                    WriteFold(ZeroMatrix, entities[b], layers.story_input[1], args)
    /\ hop >= 1 => \A b \in Batch : memory_matrix[b] = memory[b]

C3_Witness ==
    /\ pc = "reading"
    /\ hop = 1
    /\ t = 2
    /\ memory_matrix[1] # ZeroMatrix
    /\ memory_matrix[1] # WriteFold(ZeroMatrix, entities[1], 1, args)
    /\ memory_matrix[1] # WriteCall(ZeroMatrix, entities[1][2], args)

\* C4: with hops = k the reading recurrence runs exactly k steps, each from
\* the query representation of the step before, never changes the memory
\* matrix, and its last step's output alone goes to the output projection.
C4_State ==
    /\ pc = "reading" => hop < args.hops
    /\ (pc \in {"reading", "project", "done"} /\ hop >= 1) =>
          \A b \in Batch :
              read_state[b] = ReadFold(query_norm[b], hop, memory_matrix[b])
    /\ pc \in {"project", "done"} =>
          /\ hop = args.hops
          /\ \A b \in Batch :
                queried_value[b] =
                    ReadFold(query_norm[b], args.hops, memory_matrix[b])
    /\ pc = "done" =>
          \A b \in Batch :
              outputs[b] = OutputDense(queried_value[b], layers.output_units)

C4_FixedHops ==
    /\ []C4_State
    /\ [][(pc = "reading" /\ pc' \in {"reading", "project"})
              => memory_matrix' = memory_matrix]_vars

C4_Witness ==
    /\ pc = "done"
    /\ args.hops = 2
    /\ hop = 2
    /\ memory_matrix[1] # ZeroMatrix
    /\ queried_value[1] # ReadFold(query_norm[1], 1, memory_matrix[1])
    /\ Len(outputs[1]) = vocab_size
    /\ outputs[1] # ZeroVec(1..vocab_size)

\* C5: after line 110 the query tensor of every sample has exactly `hops`
\* entries along its hop axis, each the sample's vectorized query of
\* max_words indices, and the query input's shape is that of the tensor.
C5_QueryHops ==
    /\ pc \in AfterRepeated =>
          /\ \A n \in DOMAIN trainQ :
                /\ Len(trainQ[n]) = args.hops
                /\ \A h \in 1..args.hops :
                      /\ trainQ[n][h] = VectorizeQuery(train[n].q, word_idx, max_words)
                      /\ Len(trainQ[n][h]) = max_words
          /\ \A n \in DOMAIN testQ :
                /\ Len(testQ[n]) = args.hops
                /\ \A h \in 1..args.hops :
                      /\ testQ[n][h] = VectorizeQuery(test[n].q, word_idx, max_words)
                      /\ Len(testQ[n][h]) = max_words
          /\ query_shape = <<args.hops, max_words>>
    /\ pc \in AfterInputs => layers.query_input = <<args.hops, max_words>>

C5_Witness ==
    /\ pc = "fit"
    /\ args.hops = 2
    /\ Len(train[1].q) < max_words
    /\ trainQ[1][2][1] >= 1
    /\ trainQ[1][2][max_words] = 0
    /\ test[1].q # train[1].q

\* C6: an encodings_type that is not one of the three recognized values
\* fails at model construction, before any batch is run, and no encoding
\* takes its place.
C6_InvalidEncoding ==
    args.encodings_type \notin RecognizedEncodings =>
        /\ pc \in BeforeEncoding \cup {"config_error"}
        /\ encoding = "none"
        /\ batches_run = 0
        /\ story_encoded = <<>>
        /\ outputs = <<>>

C6_Witness ==
    /\ pc = "config_error"
    /\ args.encodings_type = "sum_encoding"
    /\ encoding = "none"

\* C7: with read_before_write the rate is the base rate before epoch 150 and
\* base * exp(-0.01 * (epoch - 150)) from epoch 150 on, the base at 150 and
\* non-increasing afterwards; without it the rate is
\* base * 0.85^floor(epoch / 20), constant within a block of 20 epochs and
\* multiplied by 0.85 at every multiple of 20.
C7_State ==
    epoch >= 0 =>
        IF args.read_before_write # 0
        THEN /\ epoch < 150 => lr = Rate(args.learning_rate, 0, 0)
             /\ epoch = 150 => lr = Rate(args.learning_rate, 0, 0)
             /\ epoch >= 150 => lr = Rate(args.learning_rate, 0, -(epoch - 150))
        ELSE /\ lr.base = args.learning_rate
             /\ lr.exp100 = 0
             /\ 20 * lr.pow85 <= epoch
             /\ epoch < 20 * (lr.pow85 + 1)

C7_Step ==
    (epoch >= 0 /\ epoch' = epoch + 1) =>
        IF args.read_before_write # 0
        THEN /\ lr'.base = lr.base
             /\ lr'.pow85 = lr.pow85
             /\ lr'.exp100 <= lr.exp100
        ELSE /\ epoch' % 20 # 0 => lr' = lr
             /\ epoch' % 20 = 0 => lr' = Rate(lr.base, lr.pow85 + 1, lr.exp100)

C7_Schedule == []C7_State /\ [][C7_Step]_vars

C7_Witness ==
    /\ args.read_before_write = 1
    /\ epoch = 153
    /\ lr = Rate(args.learning_rate, 0, -3)

\* C8: every distinct word of the data has a distinct index in 1..|vocab|,
\* max_num_sentences time tokens are added, and vocab_size, which sizes the
\* embedding table and the output scores, is |vocab| + max_num_sentences + 1.
C8_VocabSize ==
    /\ pc \in AfterTimed =>
          /\ \A w \in Range(vocab) : word_idx[w] \in 1..Len(vocab)
          /\ \A v, w \in Range(vocab) : v # w => word_idx[v] # word_idx[w]
          /\ Cardinality(DOMAIN word_idx \ Range(vocab)) = max_num_sentences
          /\ vocab_size = Len(vocab) + max_num_sentences + 1
    /\ pc \in AfterInputs => layers.embedding_input_dim = vocab_size
    /\ pc = "fit" => layers.output_units = vocab_size

\* C10: the sentence count is the longest story's length when
\* --max_num_sentences is -1 and min(argument, longest story) otherwise; it
\* is at least 1 and at most the longest story's length for every argument
\* value; the training stories, the test stories and the time tokens all
\* use it.
C10_SentenceCount ==
    /\ pc \in AfterSized =>
          /\ args.max_num_sentences = -1 => max_num_sentences = max_story_size
          /\ args.max_num_sentences # -1 =>
                max_num_sentences = Min2(args.max_num_sentences, max_story_size)
          /\ 1 <= max_num_sentences
          /\ max_num_sentences <= max_story_size
    /\ pc \in AfterTimed =>
          Cardinality(DOMAIN word_idx \ Range(vocab)) = max_num_sentences
    /\ pc \in AfterVectorized =>
          /\ \A n \in DOMAIN trainS : Len(trainS[n]) = max_num_sentences
          /\ \A n \in DOMAIN testS : Len(testS[n]) = max_num_sentences

\* The batches that hold sample b of (S, Q) beside any other story and query
\* (a batch has two samples).
StoriesWith(S, b) ==
    {[c \in Batch |-> IF c = b THEN S[b] ELSE other] :
        other \in [1..NumSteps(S) -> SentenceVecs]}

QueriesWith(Q, b) ==
    {[c \in Batch |-> IF c = b THEN Q[b] ELSE [h \in 1..NumSteps(Q) |-> q]] :
        q \in QueryVecs}

Independent ==
    \A b \in Batch :
        \A S2 \in StoriesWith(story_encoded, b) :
            LET M2 == GraphMemory(S2, bn.story, training, args, b)
            IN  /\ memory_matrix[b] = M2
                /\ \A Q2 \in QueriesWith(query_encoded, b) :
                      outputs[b] = GraphRead(Q2, M2, bn.query, training, b,
                                             layers.output_units)

\* C9 as stated: the memory matrix and the output scores of a story are the
\* same whatever the other stories of its batch are.
C9_NoSharedState == pc = "done" => Independent

\* C9 as amended: in an inference pass (model.evaluate) the memory matrix
\* and the output scores of a story are the same whatever the other stories
\* of its batch are, given the weights and the moving statistics.
C9_InferenceIndependent == (pc = "done" /\ ~training) => Independent

C9_Witness ==
    /\ pc = "done"
    /\ ~training
    /\ story_encoded[1] # story_encoded[2]
    /\ memory_matrix[1] # ZeroMatrix
    /\ memory_matrix[1] # memory_matrix[2]
    /\ outputs[1] # outputs[2]

====
